---- MODULE Spec2Model ----
(***************************************************************************)
(* Coordination logic of the chat client over the shared realtime store:   *)
(* direct-conversation ids, the chat-request gate, message status, group   *)
(* rosters under the configured member limit, reactions and deletions of a *)
(* message, maintenance mode and the admins set, and the suspension of     *)
(* users and groups.                                                       *)
(*                                                                         *)
(* The store (users, chats, chatRequests, groups, adminSettings) is shared *)
(* by all clients; an `await` in a handler is a point where the other      *)
(* clients may run, so a handler that reads the store and then writes what *)
(* the read decided is two actions.  State kept by a client (React state)  *)
(* is a per-client copy, refreshed by the subscription handlers.           *)
(***************************************************************************)
EXTENDS Integers, Sequences, FiniteSets, TLC

(***************************************************************************)
(* Bounds                                                                  *)
(***************************************************************************)
MaxIdLen == 2          \* longest user id drawn for the id computation
MaxLimit == 3          \* largest member limit an admin types in
MaxGroups == 1         \* groups created in one run
MaxMsgs == 2           \* messages in the direct conversation
MaxPush == 2           \* request records pushed by one sender
MaxTime == 2           \* days that pass in one run
MaxDays == 2           \* longest suspension an admin types in

(***************************************************************************)
(* User ids are strings; a string is a sequence of UTF-16 code units.      *)
(***************************************************************************)
Alphabet == {65, 66, 97}
Sep == 95
uA == <<65>>
uB == <<66>>
uC == <<97>>
Users == {uA, uB, uC}
Clients == {uA, uB}      \* the users whose client is running

RECURSIVE SeqsUpTo(_)
SeqsUpTo(n) ==
  IF n = 0 THEN {<<>>}
  ELSE LET shorter == SeqsUpTo(n - 1)
       IN  shorter \cup {Append(s, ch) : s \in {t \in shorter : Len(t) = n - 1}, ch \in Alphabet}

Ids == SeqsUpTo(MaxIdLen) \ {<<>>}

\* String comparison as Array.prototype.sort does it without a comparator:
\* by code unit, a proper prefix first.
RECURSIVE StrLess(_, _)
StrLess(s, t) ==
  IF t = <<>> THEN FALSE
  ELSE IF s = <<>> THEN TRUE
  ELSE IF Head(s) # Head(t) THEN Head(s) < Head(t)
  ELSE StrLess(Tail(s), Tail(t))

SortPair(a, b) == IF StrLess(b, a) THEN <<b, a>> ELSE <<a, b>>

Join(p) == p[1] \o <<Sep>> \o p[2]

\* The mutant joins the two ids in the order given.
ChatIdUnsorted(self, other) == Join(<<self, other>>)

\* [user.uid, otherUser.uid].sort().join('_')
ChatId(self, other) == Join(SortPair(self, other))

Other(u) == CHOOSE v \in Clients : v # u
DirectChat == ChatId(uA, uB)

(***************************************************************************)
(* State                                                                   *)
(***************************************************************************)
VARIABLES
  directIds,      \* the id computation: the pair of users and each side's result
  admins,         \* store: admins/{uid}
  storedSettings, \* store: adminSettings
  adminSettings,  \* client: AdminProvider's adminSettings state
  groups,         \* store: groups/{groupId}
  groupProp,      \* client: the group object the member manager was given
  addOp,          \* client: addMemberToGroup between its read and its write
  lastResult,     \* client: outcome of the last group operation
  isVerified,     \* store: users/{uid}/isVerified
  userProfile,    \* client: AuthProvider's userProfile state
  sidebarUsers,   \* client: the other user as the sidebar's users state holds it
  chatRequests,   \* store: chatRequests/{uid}/{chatId}
  selectedChat,   \* client: ChatLayout's selectedChat state
  startOp,        \* client: handleStartChat between its get and its push
  messages,       \* store: chats/{chatId}/messages of the direct conversation
  window,         \* client: ChatWindow's messages state
  markPending,    \* client: messages that running markMessagesAsSeen loops still have to write
  isAdmin,        \* client: AdminProvider's isAdmin state
  message,        \* store: one message of the conversation, with the fields the message actions write
  messageProp,    \* client: that message as ChatWindow's messages state hands it to MessageActions
  toast,          \* client: the last toast shown by a message action
  now,            \* Date.now(), in days
  account,        \* store: users/{uid}: isDisabled, disabledUntil, isOnline
  session,        \* client: AuthProvider's user state
  groupMessages,  \* store: groups/{groupId}/messages
  selectedGroup,  \* client: ChatLayout's selectedChat state when it holds a group id
  typing,         \* store: typing/{chatId}/{uid} of the direct conversation
  isTyping,       \* client: useTypingIndicator's isTyping state
  typingTimer,    \* client: seconds the pending 3000 ms timeout of the hook has run
  sinceKey,       \* seconds since the user's last keystroke in the input
  sidebarGroups,  \* client: ChatSidebar's groups state
  listGroups,     \* client: GroupList's groups state
  pendingRequests, \* client: ChatSidebar's pendingRequests state
  requests,       \* client: ChatRequestHandler's requests state
  panel           \* client: AdminPanel's users/activity subscription effect

groupVars == <<admins, storedSettings, adminSettings, groups, groupProp, addOp, lastResult>>
chatVars == <<isVerified, userProfile, sidebarUsers, chatRequests, selectedChat, startOp,
              messages, window, markPending>>
extraVars == <<isAdmin, message, messageProp, toast, now, account, session, groupMessages,
               selectedGroup>>
viewVars == <<typing, isTyping, typingTimer, sinceKey, sidebarGroups, listGroups,
              pendingRequests, requests, panel>>
vars == <<directIds, groupVars, chatVars, extraVars, viewVars>>

NoId == <<>>
NoGroup == [exists |-> FALSE]
NoOp == [pending |-> FALSE]
GroupIds == 1..MaxGroups
Absent == -1

\* The feature flags the message actions read; the other three flags of
\* adminSettings.featureFlags are read by no handler modelled here.
Features == {"enableMessageReactions", "enableMessageDeletion"}

initialSettings ==
  [maintenanceMode |-> FALSE,
   groupMemberLimit |-> 10,
   featureFlags |-> [f \in Features |-> TRUE]]

\* A falsy disabledUntil (absent or null); Date.now() + days is never 0.
Null == 0
NoReaction == "none"
NoToast == "none"
NoGroupId == 0
Placeholder == "This message was deleted"
\* The hook's timeout: setTimeout(..., 3000), in seconds; no timeout pending.
TypingTimeout == 3
NoTimer == -1
\* No keystroke within the last TypingTimeout seconds.
Idle == TypingTimeout
\* AdminPanel is not mounted.  users and deps are the identities of the array
\* in the users state and of the one the effect last ran with; list is the
\* content of the users state; first and activity say that the current
\* subscription has not yet delivered its first users / activity snapshot.
NoPanel == [phase |-> "unmounted", users |-> 0, deps |-> 0, list |-> {},
            first |-> FALSE, activity |-> FALSE]
NoAccount == [isDisabled |-> FALSE, disabledUntil |-> Null, isOnline |-> FALSE]

\* A message's status node: the string written by handleSendMessage, or the
\* object {seen: true} that update(.../status, {seen: true}) leaves there.
SeenObject == "{seen:true}"
NoRequests == [pushed |-> <<>>, status |-> "none"]

\* Two signed-in users, neither verified, no conversation yet.
InitChat ==
  /\ isVerified = [u \in Clients |-> FALSE]
  /\ userProfile = [c \in Clients |-> [isVerified |-> FALSE]]
  /\ sidebarUsers = [c \in Clients |-> [isVerified |-> FALSE]]
  /\ chatRequests = [u \in Clients |-> [id \in {DirectChat} |-> NoRequests]]
  /\ selectedChat = [c \in Clients |-> NoId]
  /\ startOp = [c \in Clients |-> FALSE]
  /\ messages = <<>>
  /\ window = [c \in Clients |-> <<>>]
  /\ markPending = [c \in Clients |-> {}]

InitIds == directIds = [a |-> uA, b |-> uB, ab |-> NoId, ba |-> NoId]

\* Both users are signed in and online; A has sent one message, "hi", which
\* both clients show; no group conversation is open.
InitExtra ==
  /\ isAdmin = [c \in Clients |-> c \in admins]
  /\ message = [senderId |-> uA, text |-> "hi", reactions |-> [u \in Clients |-> NoReaction],
                deletedFor |-> <<>>, deletedForEveryone |-> FALSE]
  /\ messageProp = [c \in Clients |-> message]
  /\ toast = [c \in Clients |-> NoToast]
  /\ now = 0
  /\ account = [u \in Clients |-> [NoAccount EXCEPT !.isOnline = TRUE]]
  /\ session = [c \in Clients |-> "active"]
  /\ groupMessages = [g \in GroupIds |-> <<>>]
  /\ selectedGroup = [c \in Clients |-> NoGroupId]
  /\ typing = {}
  /\ isTyping = [c \in Clients |-> FALSE]
  /\ typingTimer = [c \in Clients |-> NoTimer]
  /\ sinceKey = [c \in Clients |-> Idle]
  /\ sidebarGroups = [c \in Clients |-> {}]
  /\ listGroups = [c \in Clients |-> {}]
  /\ pendingRequests = [c \in Clients |-> {}]
  /\ requests = [c \in Clients |-> {}]
  /\ panel = [c \in Clients |-> NoPanel]

\* The store holds the initial settings (handleSettingsChange writes them when
\* it finds none) and every client has received them.
InitGroups ==
  /\ admins = Clients
  /\ storedSettings = initialSettings
  /\ adminSettings = [c \in Clients |-> initialSettings]
  /\ groups = [g \in GroupIds |-> NoGroup]
  /\ groupProp = [c \in Clients |-> [g \in GroupIds |-> {}]]
  /\ addOp = [c \in Clients |-> NoOp]
  /\ lastResult = [c \in Clients |-> "none"]

\* As InitGroups, after an admin has set the member limit and every client has
\* received the new settings.
InitGroupsWithLimit ==
  /\ admins = Clients
  /\ \E n \in 1..MaxLimit : storedSettings = [initialSettings EXCEPT !.groupMemberLimit = n]
  /\ adminSettings = [c \in Clients |-> storedSettings]
  /\ groups = [g \in GroupIds |-> NoGroup]
  /\ groupProp = [c \in Clients |-> [g \in GroupIds |-> {}]]
  /\ addOp = [c \in Clients |-> NoOp]
  /\ lastResult = [c \in Clients |-> "none"]

\* ChatLayout renders the sidebar and the chat window for a signed-in user,
\* unless its adminSettings say maintenance and its isAdmin says no admin.
LayoutShown(c) ==
  /\ session[c] = "active"
  /\ ~(adminSettings[c].maintenanceMode /\ ~isAdmin[c])

(***************************************************************************)
(* Group rosters and the member limit                                      *)
(***************************************************************************)
\* Comparisons with a limit that adminSettings does not hold: in JavaScript
\* both n < undefined and n >= undefined are false.
Lt(n, limit) == limit # Absent /\ n < limit
Ge(n, limit) == limit # Absent /\ n >= limit

Roster(g) == IF groups[g].exists THEN DOMAIN groups[g].members ELSE {}
RosterSize(g) == Cardinality(Roster(g))
FreeGroupIds == {g \in GroupIds : ~groups[g].exists}

\* JavaScript values as the list filters compare them: a string (a uid) or an
\* object (a member entry {role, joinedAt}); === holds between two values of
\* the same type that are the same value.
Str(s) == [type |-> "string", value |-> s]
Obj(o) == [type |-> "object", value |-> o]
StrictEquals(x, y) == x.type = y.type /\ x.value = y.value

\* Object.values(group.members): the member entries; Object.keys: the uids
MemberValues(g) == {Obj(groups[g].members[u]) : u \in Roster(g)}
MemberKeys(g) == {Str(u) : u \in Roster(g)}
Includes(values, x) == \E v \in values : StrictEquals(v, x)

\* GroupList: isAdmin ? groupsList
\*                    : groupsList.filter(group => Object.keys(group.members).includes(user.uid))
\* No operation modelled here marks a group isDeleted.
ListUserGroups(c) ==
  {g \in GroupIds : groups[g].exists /\ (isAdmin[c] \/ Includes(MemberKeys(g), Str(c)))}

\* ChatSidebar: groupsList.filter(group => Object.values(group.members).includes(user.uid))
\* (members is stored as an object, so the Array.isArray branch is not taken)
SidebarUserGroups(c) ==
  {g \in GroupIds : groups[g].exists /\ Includes(MemberValues(g), Str(c))}

\* GroupList's groups subscription: it sets the list's groups state and hands
\* the member manager its group object; the effect subscribes anew when
\* isAdmin changes.
handleGroupsChange(c) ==
  /\ groupProp[c] # [g \in GroupIds |-> Roster(g)] \/ listGroups[c] # ListUserGroups(c)
  /\ groupProp' = [groupProp EXCEPT ![c] = [g \in GroupIds |-> Roster(g)]]
  /\ listGroups' = [listGroups EXCEPT ![c] = ListUserGroups(c)]
  /\ UNCHANGED <<chatVars, extraVars, directIds, admins, storedSettings, adminSettings, groups, addOp,
                 lastResult, typing, isTyping, typingTimer, sinceKey, sidebarGroups,
                 pendingRequests, requests, panel>>

\* ChatSidebar's groups subscription: setGroups(userGroups) when the snapshot
\* holds any group.
handleGroupsChangeSidebar(c) ==
  /\ LayoutShown(c)
  /\ \E g \in GroupIds : groups[g].exists
  /\ sidebarGroups' = [sidebarGroups EXCEPT ![c] = SidebarUserGroups(c)]
  /\ UNCHANGED <<chatVars, extraVars, directIds, groupVars, typing, isTyping, typingTimer, sinceKey,
                 listGroups, pendingRequests, requests, panel>>

\* the adminSettings subscription delivers the stored settings to a client
handleSettingsChange(c) ==
  /\ adminSettings[c] # storedSettings
  /\ adminSettings' = [adminSettings EXCEPT ![c] = storedSettings]
  /\ UNCHANGED <<chatVars, extraVars, directIds, admins, storedSettings, groups, groupProp, addOp, lastResult, viewVars>>

\* GroupChatModal.createGroup: push(groupsRef, {createdBy, members})
createGroup(c, selectedUsers) ==
  /\ selectedUsers # {}
  /\ FreeGroupIds # {}
  /\ LET g == CHOOSE x \in FreeGroupIds : \A y \in FreeGroupIds : x <= y
     IN  groups' = [groups EXCEPT ![g] =
           [exists |-> TRUE,
            createdBy |-> c,
            isDisabled |-> FALSE,
            disabledUntil |-> Null,
            members |-> [u \in {c} \cup selectedUsers |->
                           IF u = c THEN "admin" ELSE "member"]]]
  /\ UNCHANGED <<chatVars, extraVars, directIds, admins, storedSettings, adminSettings, groupProp, addOp, lastResult, viewVars>>

\* the Add button of the member manager
canAddMembers(c, g) == Lt(Cardinality(groupProp[c][g]), adminSettings[c].groupMemberLimit)
availableUsers(c, g) == Users \ groupProp[c][g]

\* currentMembers.length >= adminSettings.groupMemberLimit
LimitReached(size, limit) == Ge(size, limit)

\* handleAddMember -> addMemberToGroup, up to the answer of get(groupRef):
\* the roster is the store's, the limit is the client's adminSettings.
addMemberToGroupRead(c, g, userId) ==
  /\ c \in admins
  /\ ~addOp[c].pending
  /\ groupProp[c][g] # {}
  /\ canAddMembers(c, g)
  /\ userId \in availableUsers(c, g)
  /\ IF ~groups[g].exists
       THEN /\ lastResult' = [lastResult EXCEPT ![c] = "not_found"]
            /\ UNCHANGED addOp
     ELSE IF LimitReached(RosterSize(g), adminSettings[c].groupMemberLimit)
       THEN /\ lastResult' = [lastResult EXCEPT ![c] = "limit_reached"]
            /\ UNCHANGED addOp
       ELSE /\ addOp' = [addOp EXCEPT ![c] = [pending |-> TRUE, groupId |-> g, userId |-> userId]]
            /\ UNCHANGED lastResult
  /\ UNCHANGED <<chatVars, extraVars, directIds, admins, storedSettings, adminSettings, groups, groupProp, viewVars>>

\* addMemberToGroup after the check: update(memberRef, {role: 'member'})
addMemberToGroupWrite(c) ==
  /\ addOp[c].pending
  /\ LET g == addOp[c].groupId
         u == addOp[c].userId
         old == groups[g].members
     IN  groups' = [groups EXCEPT ![g].members =
                      [x \in DOMAIN old \cup {u} |-> IF x = u THEN "member" ELSE old[x]]]
  /\ addOp' = [addOp EXCEPT ![c] = NoOp]
  /\ lastResult' = [lastResult EXCEPT ![c] = "added"]
  /\ UNCHANGED <<chatVars, extraVars, directIds, admins, storedSettings, adminSettings, groupProp, viewVars>>

\* handleRemoveMember -> removeMemberFromGroup: remove(memberRef).  The member
\* manager renders the Remove button only next to members other than
\* group.createdBy; removeMemberFromGroup itself checks nothing.
removeMemberFromGroup(c, g, userId) ==
  /\ c \in admins
  /\ ~addOp[c].pending
  /\ userId \in groupProp[c][g]
  /\ groups[g].exists /\ userId # groups[g].createdBy
  /\ userId \in Roster(g)
  /\ groups' = [groups EXCEPT ![g].members =
                  [x \in DOMAIN groups[g].members \ {userId} |-> groups[g].members[x]]]
  /\ UNCHANGED <<chatVars, extraVars, directIds, admins, storedSettings, adminSettings, groupProp, addOp, lastResult, viewVars>>

LimitInputs == 0..MaxLimit

\* handleUpdateMemberLimit -> updateGroupMemberLimit
handleUpdateMemberLimit(c, limit) ==
  /\ c \in admins
  /\ ~(limit < 1 \/ limit > 100)
  /\ storedSettings.groupMemberLimit # limit
  /\ storedSettings' = [storedSettings EXCEPT !.groupMemberLimit = limit]
  /\ adminSettings' = [adminSettings EXCEPT ![c].groupMemberLimit = limit]
  /\ UNCHANGED <<chatVars, extraVars, directIds, admins, groups, groupProp, addOp, lastResult, viewVars>>

\* Rosters under a limit that does not change.
NextGroup ==
  \/ \E c \in Clients : handleGroupsChange(c)
  \/ \E c \in Clients : \E sel \in SUBSET (Users \ {c}) : createGroup(c, sel)
  \/ \E c \in Clients, g \in GroupIds, u \in Users : addMemberToGroupRead(c, g, u)
  \/ \E c \in Clients : addMemberToGroupWrite(c)
  \/ \E c \in Clients, g \in GroupIds, u \in Users : removeMemberFromGroup(c, g, u)

InitGroupSpec == InitIds /\ InitGroupsWithLimit /\ InitChat /\ InitExtra

SpecGroup == InitGroupSpec /\ [][NextGroup]_vars

\* Adding members while admins change the limit.
NextLimit ==
  \/ \E c \in Clients : handleGroupsChange(c)
  \/ \E c \in Clients : handleSettingsChange(c)
  \/ \E c \in Clients : \E sel \in SUBSET (Users \ {c}) : createGroup(c, sel)
  \/ \E c \in Clients, g \in GroupIds, u \in Users : addMemberToGroupRead(c, g, u)
  \/ \E c \in Clients : addMemberToGroupWrite(c)
  \/ \E c \in Clients, n \in LimitInputs : handleUpdateMemberLimit(c, n)

InitLimitSpec == InitIds /\ InitGroups /\ InitChat /\ InitExtra

SpecLimit == InitLimitSpec /\ [][NextLimit]_vars

\* C1: under any interleaving of concurrent addMember calls the roster stays
\* within the member limit: every step in which a roster grows leaves its size
\* <= the configured groupMemberLimit.
C1_RosterWithinLimit ==
  [][\A g \in GroupIds :
       (groups[g].exists /\ Cardinality(DOMAIN groups'[g].members) > RosterSize(g))
         => Cardinality(DOMAIN groups'[g].members) <= storedSettings.groupMemberLimit]_vars

\* C9: an addMember call on a group whose roster size is >= the stored
\* groupMemberLimit fails: no call passes its limit check in such a state.
C9_AddAtLimitFails ==
  [][\A c \in Clients :
       (~addOp[c].pending /\ addOp'[c].pending)
         => ~Ge(RosterSize(addOp'[c].groupId), storedSettings.groupMemberLimit)]_vars

\* C10: group creation enforces the member limit: every group that comes into
\* existence has a roster of at most groupMemberLimit members.
C10_CreateWithinLimit ==
  [][\A g \in GroupIds :
       (~groups[g].exists /\ groups'[g].exists)
         => Cardinality(DOMAIN groups'[g].members) <= storedSettings.groupMemberLimit]_vars

\* C11: every existing group has exactly one member with role creator, and that
\* member is its createdBy user (creation gives the creator that role and the
\* others member; no add or remove takes it away).
C11_OneCreator ==
  \A g \in GroupIds :
    groups[g].exists
      => {u \in Roster(g) : groups[g].members[u] = "creator"} = {groups[g].createdBy}

(***************************************************************************)
(* Direct-conversation id                                                  *)
(***************************************************************************)
\* handleStartChat on a's client for otherUser = b
StartChatIdA ==
  /\ directIds.ab = NoId
  /\ directIds' = [directIds EXCEPT !.ab = ChatId(directIds.a, directIds.b)]
  /\ UNCHANGED <<groupVars, chatVars, extraVars, viewVars>>

\* handleStartChat on b's client for otherUser = a
StartChatIdB ==
  /\ directIds.ba = NoId
  /\ directIds' = [directIds EXCEPT !.ba = ChatId(directIds.b, directIds.a)]
  /\ UNCHANGED <<groupVars, chatVars, extraVars, viewVars>>

InitDirectIds ==
  /\ \E a \in Ids, b \in Ids : directIds = [a |-> a, b |-> b, ab |-> NoId, ba |-> NoId]
  /\ InitGroups
  /\ InitChat
  /\ InitExtra

NextId == StartChatIdA \/ StartChatIdB

SpecId == InitDirectIds /\ [][NextId]_vars

\* C3: the id A's client computes for (A,B) equals the id B's client computes
\* for (B,A), for all user ids A and B.
C3_OrderIndependent ==
  (directIds.ab # NoId /\ directIds.ba # NoId) => directIds.ab = directIds.ba

\* both sides have computed the id of a pair whose ids are given out of order
C3_Witness ==
  /\ directIds.ab # NoId /\ directIds.ba # NoId
  /\ StrLess(directIds.b, directIds.a)
  /\ directIds.ab = directIds.b \o <<Sep>> \o directIds.a

(***************************************************************************)
(* Direct chat: the request gate, sending, and the seen acknowledgement    *)
(***************************************************************************)
\* AdminContext.giveBlueTickToUser, called from an admin's panel
giveBlueTickToUser(u) ==
  /\ ~isVerified[u]
  /\ isVerified' = [isVerified EXCEPT ![u] = TRUE]
  /\ UNCHANGED <<directIds, extraVars, groupVars, userProfile, sidebarUsers, chatRequests, selectedChat,
                 startOp, messages, window, markPending, viewVars>>

\* the sidebar's users subscription delivers the other user's record
handleUsersChange(c) ==
  /\ sidebarUsers[c].isVerified # isVerified[Other(c)]
  /\ sidebarUsers' = [sidebarUsers EXCEPT ![c] = [isVerified |-> isVerified[Other(c)]]]
  /\ UNCHANGED <<directIds, extraVars, groupVars, isVerified, userProfile, chatRequests, selectedChat,
                 startOp, messages, window, markPending, viewVars>>

\* userData.isDisabled && userData.disabledUntil && userData.disabledUntil > Date.now()
StillDisabled(userData, time) ==
  userData.isDisabled /\ userData.disabledUntil # Null /\ userData.disabledUntil > time

\* A new session (sign-in or page reload).  For a user who is still disabled
\* onAuthStateChanged signs out and returns.  Otherwise it replaces the user's
\* record by set(userRef, {uid, ..., isOnline: true, isVerified}), which keeps
\* the stored isVerified and drops isDisabled and disabledUntil (cleared just
\* before when the period has expired), and loads userProfile once.  Every
\* component starts afresh.
onAuthStateChanged(c) ==
  /\ IF StillDisabled(account[c], now)
       THEN /\ session' = [session EXCEPT ![c] = "signedOut"]
            /\ userProfile' = [userProfile EXCEPT ![c] = [isVerified |-> FALSE]]
            /\ sidebarUsers' = [sidebarUsers EXCEPT ![c] = [isVerified |-> FALSE]]
            /\ UNCHANGED account
       ELSE /\ session' = [session EXCEPT ![c] = "active"]
            /\ account' = [account EXCEPT ![c] = [NoAccount EXCEPT !.isOnline = TRUE]]
            /\ userProfile' = [userProfile EXCEPT ![c] = [isVerified |-> isVerified[c]]]
            /\ sidebarUsers' = [sidebarUsers EXCEPT ![c] = [isVerified |-> isVerified[Other(c)]]]
  /\ selectedChat' = [selectedChat EXCEPT ![c] = NoId]
  /\ selectedGroup' = [selectedGroup EXCEPT ![c] = NoGroupId]
  /\ startOp' = [startOp EXCEPT ![c] = FALSE]
  /\ window' = [window EXCEPT ![c] = <<>>]
  /\ markPending' = [markPending EXCEPT ![c] = {}]
  /\ UNCHANGED <<directIds, groupVars, isVerified, chatRequests, messages, isAdmin, message,
                 messageProp, toast, now, groupMessages, viewVars>>

\* The mutant asks for a request whenever the recipient is verified.
RequestRequiredIgnoringSender(otherUser, profile) == otherUser.isVerified

\* otherUser.isVerified && !userProfile?.isVerified
RequestRequired(otherUser, profile) == otherUser.isVerified /\ ~profile.isVerified

\* handleStartChat up to the answer of get(chats/{chatId}/messages); without a
\* request to send it ends in onSelectChat(chatId).
handleStartChat(c) ==
  /\ LayoutShown(c)
  /\ ~startOp[c]
  /\ LET chatId == ChatId(c, Other(c))
     IN  IF RequestRequired(sidebarUsers[c], userProfile[c]) /\ messages = <<>>
           THEN /\ startOp' = [startOp EXCEPT ![c] = TRUE]
                /\ UNCHANGED selectedChat
           ELSE /\ selectedChat[c] # chatId
                /\ selectedChat' = [selectedChat EXCEPT ![c] = chatId]
                /\ UNCHANGED startOp
  /\ UNCHANGED <<directIds, extraVars, groupVars, isVerified, userProfile, sidebarUsers, chatRequests,
                 messages, window, markPending, viewVars>>

\* handleStartChat after the get: push(chatRequests/{other}/{chatId}, {from, status: 'pending'})
\* adds a record under a new key below the chat's node.
handleStartChatPush(c) ==
  /\ startOp[c]
  /\ LET to == Other(c)
         chatId == ChatId(c, to)
     IN  /\ Len(chatRequests[to][chatId].pushed) < MaxPush
         /\ chatRequests' = [chatRequests EXCEPT ![to][chatId].pushed =
                               Append(@, [from |-> c, status |-> "pending"])]
  /\ startOp' = [startOp EXCEPT ![c] = FALSE]
  /\ UNCHANGED <<directIds, extraVars, groupVars, isVerified, userProfile, sidebarUsers, selectedChat,
                 messages, window, markPending, viewVars>>

\* useTypingIndicator.handleTyping: the first keystroke of a burst sets
\* isTyping, which writes the typing record and starts the 3000 ms timeout (the
\* effect depends on isTyping only); later keystrokes find isTyping set and do
\* nothing.
handleTyping(c) ==
  /\ typing' = IF isTyping[c] THEN typing ELSE typing \cup {c}
  /\ isTyping' = [isTyping EXCEPT ![c] = TRUE]
  /\ typingTimer' = [typingTimer EXCEPT ![c] = IF isTyping[c] THEN @ ELSE 0]

\* useTypingIndicator.handleStopTyping: removes the record and, through the
\* effect's cleanup, the timeout, when isTyping is set.
handleStopTyping(c) ==
  /\ typing' = IF isTyping[c] THEN typing \ {c} ELSE typing
  /\ isTyping' = [isTyping EXCEPT ![c] = FALSE]
  /\ typingTimer' = [typingTimer EXCEPT ![c] = NoTimer]

\* ChatWindow.handleSendMessage with a non-empty text; the window is part of
\* the layout.  The handler itself reads neither adminSettings nor the group.
\* After the push it clears the input and calls handleStopTyping.
handleSendMessage(c) ==
  /\ LayoutShown(c)
  /\ selectedChat[c] = DirectChat
  /\ Len(messages) < MaxMsgs
  /\ messages' = Append(messages, [senderId |-> c, status |-> "sent"])
  /\ handleStopTyping(c)
  /\ sinceKey' = [sinceKey EXCEPT ![c] = Idle]
  /\ UNCHANGED <<directIds, extraVars, groupVars, isVerified, userProfile, sidebarUsers, chatRequests,
                 selectedChat, startOp, window, markPending, sidebarGroups, listGroups,
                 pendingRequests, requests, panel>>

\* messagesList.filter(msg => msg.senderId !== user.uid && msg.status !== 'seen')
unseenMessages(c, messagesList) ==
  {i \in 1..Len(messagesList) :
     messagesList[i].senderId # c /\ messagesList[i].status # "seen"}

\* ChatWindow.handleMessagesChange: setMessages, then markMessagesAsSeen starts
\* on the list just received.
handleMessagesChange(c) ==
  /\ LayoutShown(c)
  /\ selectedChat[c] = DirectChat
  /\ window[c] # messages
  /\ window' = [window EXCEPT ![c] = messages]
  /\ markPending' = [markPending EXCEPT ![c] = @ \cup unseenMessages(c, messages)]
  /\ UNCHANGED <<directIds, extraVars, groupVars, isVerified, userProfile, sidebarUsers, chatRequests,
                 selectedChat, startOp, messages, viewVars>>

\* update(ref(.../messages/{id}/status), {seen: true}) writes the child `seen`
\* below the status node, which replaces the string stored there.
StatusAfterSeenUpdate(status) == SeenObject

\* one pass of the loop of markMessagesAsSeen
markMessagesAsSeen(c, i) ==
  /\ i \in markPending[c]
  /\ messages' = [messages EXCEPT ![i].status = StatusAfterSeenUpdate(@)]
  /\ markPending' = [markPending EXCEPT ![c] = @ \ {i}]
  /\ UNCHANGED <<directIds, extraVars, groupVars, isVerified, userProfile, sidebarUsers, chatRequests,
                 selectedChat, startOp, window, viewVars>>

NextChat ==
  \/ \E u \in Clients : giveBlueTickToUser(u)
  \/ \E c \in Clients : handleUsersChange(c)
  \/ \E c \in Clients : onAuthStateChanged(c)
  \/ \E c \in Clients : handleStartChat(c)
  \/ \E c \in Clients : handleStartChatPush(c)
  \/ \E c \in Clients : handleSendMessage(c)
  \/ \E c \in Clients : handleMessagesChange(c)
  \/ \E c \in Clients : \E i \in markPending[c] : markMessagesAsSeen(c, i)

InitSpec == InitIds /\ InitGroups /\ InitChat /\ InitExtra

Spec == InitSpec /\ [][NextChat]_vars

\* The requests stored for a user in the shape the request handlers take them:
\* the chat id and the sender of a record pushed below chatRequests/{uid}/{chatId}.
StoredRequests(uid) ==
  {[id |-> chatId, from |-> chatRequests[uid][chatId].pushed[k].from] :
     chatId \in {DirectChat}, k \in 1..Len(chatRequests[uid][DirectChat].pushed)}

\* update(requestRef, {status}) sets the status whatever the node holds
Resolve(old, new) == new

\* ChatRequestHandler.handleAcceptRequest(request): status 'accepted' under the
\* recipient and under the sender, then onRequestAccepted opens the chat.  The
\* two updates depend on no read and are taken as one step.
handleAcceptRequest(c, request) ==
  /\ chatRequests' = [chatRequests EXCEPT
        ![c][request.id].status = Resolve(@, "accepted"),
        ![request.from][request.id].status = Resolve(@, "accepted")]
  /\ selectedChat' = [selectedChat EXCEPT ![c] = request.id]
  /\ chatRequests' # chatRequests \/ selectedChat' # selectedChat
  /\ UNCHANGED <<directIds, extraVars, groupVars, isVerified, userProfile, sidebarUsers, startOp,
                 messages, window, markPending, viewVars>>

\* ChatRequestHandler.handleRejectRequest(request): status 'rejected' under the
\* recipient and under the sender.
handleRejectRequest(c, request) ==
  /\ chatRequests' = [chatRequests EXCEPT
        ![c][request.id].status = Resolve(@, "rejected"),
        ![request.from][request.id].status = Resolve(@, "rejected")]
  /\ chatRequests' # chatRequests
  /\ UNCHANGED <<directIds, extraVars, groupVars, isVerified, userProfile, sidebarUsers, selectedChat,
                 startOp, messages, window, markPending, viewVars>>

\* The gate with the recipient's handlers applied to the requests stored for
\* the recipient.
NextGate ==
  \/ \E u \in Clients : giveBlueTickToUser(u)
  \/ \E c \in Clients : handleUsersChange(c)
  \/ \E c \in Clients : onAuthStateChanged(c)
  \/ \E c \in Clients : handleStartChat(c)
  \/ \E c \in Clients : handleStartChatPush(c)
  \/ \E c \in Clients : handleSendMessage(c)
  \/ \E c \in Clients : handleMessagesChange(c)
  \/ \E c \in Clients : \E i \in markPending[c] : markMessagesAsSeen(c, i)
  \/ \E c \in Clients : \E request \in StoredRequests(c) : handleAcceptRequest(c, request)
  \/ \E c \in Clients : \E request \in StoredRequests(c) : handleRejectRequest(c, request)

SpecGate == InitSpec /\ [][NextGate]_vars

(***************************************************************************)
(* Properties of the direct chat                                           *)
(***************************************************************************)
\* getMessageStatusIcon: 'seen' and 'delivered' are told apart, anything else
\* is shown as sent.
StatusRank(status) ==
  CASE status = "seen" -> 2
    [] status = "delivered" -> 1
    [] OTHER -> 0

\* C2: message status never regresses and ends in the maximum status reached:
\* every change of a message's status is a strict advance within
\* sent < delivered < seen (so an acknowledged message ends as seen).
C2_StatusOnlyAdvances ==
  [][\A i \in 1..Len(messages) :
       messages'[i].status # messages[i].status
         => /\ messages'[i].status \in {"delivered", "seen"}
            /\ StatusRank(messages'[i].status) > StatusRank(messages[i].status)]_vars

RequestsFrom(a) == chatRequests[Other(a)][DirectChat].pushed
Approved(a) == chatRequests[Other(a)][DirectChat].status = "accepted"
VisibleFrom(a) == {i \in 1..Len(window[Other(a)]) : window[Other(a)][i].senderId = a}

\* C4: a first contact of an unverified A with a verified B creates a pending
\* request from A, and while A's request is not approved by B no message from
\* A in their conversation is shown to B.
C4_NoMessageBeforeApproval ==
  /\ [][\A a \in Clients :
          Len(RequestsFrom(a))' > Len(RequestsFrom(a))
            => RequestsFrom(a)'[Len(RequestsFrom(a)')] = [from |-> a, status |-> "pending"]]_vars
  /\ [](\A a \in Clients :
          (RequestsFrom(a) # <<>> /\ ~Approved(a)) => VisibleFrom(a) = {})

\* C5: at most one pending request exists per (from, to) pair.
C5_OnePendingPerPair ==
  \A a \in Clients :
    Cardinality({k \in 1..Len(RequestsFrom(a)) :
                   RequestsFrom(a)[k].from = a /\ RequestsFrom(a)[k].status = "pending"}) <= 1

REACTIONS == {"heart", "thumbsup"}

Range(seq) == {seq[i] : i \in DOMAIN seq}

\* ChatWindow.handleMessagesChange as MessageActions sees it: setMessages hands
\* the component the stored message as its message prop.
setMessages(c) ==
  /\ LayoutShown(c)
  /\ messageProp[c] # message
  /\ messageProp' = [messageProp EXCEPT ![c] = message]
  /\ UNCHANGED <<directIds, groupVars, chatVars, isAdmin, message, toast, now, account,
                 session, groupMessages, selectedGroup, viewVars>>

\* message.deletedForEveryone || message.deletedFor?.includes(user.uid): the
\* component then renders the placeholder in place of the message and its menu.
isDeleted(c, msg) == msg.deletedForEveryone \/ c \in Range(msg.deletedFor)

\* The mutant lets every user delete for everyone.
canDeleteForEveryoneAnyone(c, msg) == TRUE

\* message.senderId === user?.uid
canDeleteForEveryone(c, msg) == msg.senderId = c

\* AdminPanel renders its controls only for a client whose isAdmin is true.
PanelShown(c) == session[c] = "active" /\ isAdmin[c]

\* AdminPanel's switch -> AdminContext.toggleFeature(feature): the new value and
\* the other flags written to the store are taken from the client's adminSettings.
toggleFeature(c, feature) ==
  /\ PanelShown(c)
  /\ LET newValue == ~adminSettings[c].featureFlags[feature]
     IN  /\ storedSettings' = [storedSettings EXCEPT !.featureFlags =
                                 [adminSettings[c].featureFlags EXCEPT ![feature] = newValue]]
         /\ adminSettings' = [adminSettings EXCEPT ![c].featureFlags[feature] = newValue]
  /\ UNCHANGED <<directIds, chatVars, extraVars, admins, groups, groupProp, addOp, lastResult, viewVars>>

\* MessageActions.handleReaction(emoji): the current reaction is read from the
\* message prop, the write goes to reactions/{uid} of the stored message.
handleReaction(c, emoji) ==
  /\ LayoutShown(c)
  /\ ~isDeleted(c, messageProp[c])
  /\ IF ~adminSettings[c].featureFlags["enableMessageReactions"]
       THEN /\ toast' = [toast EXCEPT ![c] = "Message reactions are currently disabled"]
            /\ UNCHANGED message
       ELSE LET currentReaction == messageProp[c].reactions[c]
            IN  /\ message' = [message EXCEPT !.reactions[c] =
                                 IF currentReaction = emoji THEN NoReaction ELSE emoji]
                /\ toast' = [toast EXCEPT ![c] =
                               IF currentReaction = emoji THEN "Reaction removed"
                                                          ELSE "Reaction added"]
  /\ UNCHANGED <<directIds, groupVars, chatVars, isAdmin, messageProp, now, account, session,
                 groupMessages, selectedGroup, viewVars>>

\* MessageActions.handleDeleteForMe: update(messagePath, {deletedFor: [...message.deletedFor, uid]})
handleDeleteForMe(c) ==
  /\ LayoutShown(c)
  /\ ~isDeleted(c, messageProp[c])
  /\ IF ~adminSettings[c].featureFlags["enableMessageDeletion"]
       THEN /\ toast' = [toast EXCEPT ![c] = "Message deletion is currently disabled"]
            /\ UNCHANGED message
       ELSE /\ message' = [message EXCEPT !.deletedFor = Append(messageProp[c].deletedFor, c)]
            /\ toast' = [toast EXCEPT ![c] = "Message deleted for you"]
  /\ UNCHANGED <<directIds, groupVars, chatVars, isAdmin, messageProp, now, account, session,
                 groupMessages, selectedGroup, viewVars>>

\* MessageActions.handleDeleteForEveryone:
\* update(messagePath, {deletedForEveryone: true, text: "This message was deleted"})
handleDeleteForEveryone(c) ==
  /\ LayoutShown(c)
  /\ ~isDeleted(c, messageProp[c])
  /\ IF \/ ~canDeleteForEveryone(c, messageProp[c])
        \/ ~adminSettings[c].featureFlags["enableMessageDeletion"]
       THEN /\ toast' = [toast EXCEPT ![c] = "Message deletion is currently disabled"]
            /\ UNCHANGED message
       ELSE /\ message' = [message EXCEPT !.deletedForEveryone = TRUE, !.text = Placeholder]
            /\ toast' = [toast EXCEPT ![c] = "Message deleted for everyone"]
  /\ UNCHANGED <<directIds, groupVars, chatVars, isAdmin, messageProp, now, account, session,
                 groupMessages, selectedGroup, viewVars>>

\* Reactions on a message that its sender may delete for everyone.
NextReact ==
  \/ \E c \in Clients : setMessages(c)
  \/ \E c \in Clients, emoji \in REACTIONS : handleReaction(c, emoji)
  \/ \E c \in Clients : handleDeleteForEveryone(c)

SpecReact == InitSpec /\ [][NextReact]_vars

\* The two deletions while admins switch enableMessageDeletion.
NextDelete ==
  \/ \E c \in Clients : setMessages(c)
  \/ \E c \in Clients : handleSettingsChange(c)
  \/ \E c \in Clients : toggleFeature(c, "enableMessageDeletion")
  \/ \E c \in Clients : handleDeleteForMe(c)
  \/ \E c \in Clients : handleDeleteForEveryone(c)

SpecDelete == InitSpec /\ [][NextDelete]_vars

\* C12: a react call toggles against the stored reaction of the caller: the
\* same emoji as the stored one clears it, any other emoji replaces it (the
\* reactions map is keyed by user, so a user never has two).
C12_ReactionToggle ==
  [][\A c \in Clients, emoji \in REACTIONS :
       (handleReaction(c, emoji) /\ ~message.deletedForEveryone)
         => message'.reactions[c] =
              IF message.reactions[c] = emoji THEN NoReaction ELSE emoji]_vars

NoDuplicates(seq) == \A i, j \in DOMAIN seq : seq[i] = seq[j] => i = j

\* C13: deletedFor never holds a user twice, and a deleteForSelf call by a user
\* whom deletedFor already holds leaves deletedFor as it is.
C13_DeleteForSelfIdempotent ==
  /\ [](NoDuplicates(message.deletedFor))
  /\ [][\A c \in Clients :
          (handleDeleteForMe(c) /\ c \in Range(message.deletedFor))
            => message'.deletedFor = message.deletedFor]_vars

C15_NoDeletionWhileFlagOff ==
  [][~storedSettings.featureFlags["enableMessageDeletion"]
       => /\ message'.text = message.text
          /\ message'.deletedFor = message.deletedFor
          /\ message'.deletedForEveryone = message.deletedForEveryone]_vars

\* C16: a message deleted for everyone stays so: the flag stays true, the text
\* is the placeholder, and no react call changes its reactions any more.
C16_DeletedForEveryoneIsFinal ==
  /\ [](message.deletedForEveryone => message.text = Placeholder)
  /\ [][message.deletedForEveryone
          => /\ message'.deletedForEveryone
             /\ message'.reactions = message.reactions]_vars

(***************************************************************************)
(* Maintenance mode and the admins set                                     *)
(***************************************************************************)
\* AdminProvider.checkAdminStatus, run when the user of the session changes:
\* setIsAdmin(get(admins/{uid}).exists())
checkAdminStatus(c) ==
  /\ session[c] = "active"
  /\ isAdmin[c] # (c \in admins)
  /\ isAdmin' = [isAdmin EXCEPT ![c] = (c \in admins)]
  /\ UNCHANGED <<directIds, groupVars, chatVars, message, messageProp, toast, now, account,
                 session, groupMessages, selectedGroup, viewVars>>

\* AdminPanel's switch -> AdminContext.toggleMaintenanceMode
toggleMaintenanceMode(c) ==
  /\ PanelShown(c)
  /\ LET newValue == ~adminSettings[c].maintenanceMode
     IN  /\ storedSettings' = [storedSettings EXCEPT !.maintenanceMode = newValue]
         /\ adminSettings' = [adminSettings EXCEPT ![c].maintenanceMode = newValue]
  /\ UNCHANGED <<directIds, chatVars, extraVars, admins, groups, groupProp, addOp, lastResult, viewVars>>

\* AdminSetup.makeCurrentUserAdmin, behind the button the layout shows to a
\* client whose isAdmin is false: set(admins/{uid}, ...), then
\* set(adminSettings, {maintenanceMode: false, featureFlags: {...all true}}),
\* which leaves the settings without a groupMemberLimit.
makeCurrentUserAdmin(c) ==
  /\ LayoutShown(c)
  /\ ~isAdmin[c]
  /\ admins' = admins \cup {c}
  /\ storedSettings' = [maintenanceMode |-> FALSE,
                        groupMemberLimit |-> Absent,
                        featureFlags |-> [f \in Features |-> TRUE]]
  /\ UNCHANGED <<directIds, chatVars, extraVars, adminSettings, groups, groupProp, addOp,
                 lastResult, viewVars>>

\* A is the admin, B is not.
InitOneAdmin ==
  /\ admins = {uA}
  /\ storedSettings = initialSettings
  /\ adminSettings = [c \in Clients |-> initialSettings]
  /\ groups = [g \in GroupIds |-> NoGroup]
  /\ groupProp = [c \in Clients |-> [g \in GroupIds |-> {}]]
  /\ addOp = [c \in Clients |-> NoOp]
  /\ lastResult = [c \in Clients |-> "none"]

InitMaintSpec == InitIds /\ InitOneAdmin /\ InitChat /\ InitExtra

NextMaint ==
  \/ \E c \in Clients : checkAdminStatus(c)
  \/ \E c \in Clients : handleSettingsChange(c)
  \/ \E c \in Clients : toggleMaintenanceMode(c)
  \/ \E c \in Clients : makeCurrentUserAdmin(c)
  \/ \E c \in Clients : handleStartChat(c)
  \/ \E c \in Clients : handleSendMessage(c)

SpecMaint == InitMaintSpec /\ [][NextMaint]_vars

\* C17: while the stored maintenanceMode is true, every message appended to
\* the conversation is sent by an admin.
C17_MaintenanceBlocksSend ==
  [][(storedSettings.maintenanceMode /\ Len(messages') > Len(messages))
       => messages'[Len(messages')].senderId \in admins]_vars

\* the operations of the admin panel that write adminSettings
AdminOperation(c) ==
  \/ toggleMaintenanceMode(c)
  \/ \E feature \in Features : toggleFeature(c, feature)
  \/ \E limit \in LimitInputs : handleUpdateMemberLimit(c, limit)

\* C18: the stored adminSettings change only in an operation of a user who is
\* in the admins set, and so does the admins set: a user who is not an admin
\* cannot change the settings or add itself to the admins.
C18_SettingsOnlyByAdmins ==
  [][(storedSettings' # storedSettings \/ admins' # admins)
       => \E c \in admins : AdminOperation(c)]_vars

(***************************************************************************)
(* Suspension of users and of groups                                       *)
(***************************************************************************)
\* a day passes
Tick ==
  /\ now < MaxTime
  /\ now' = now + 1
  /\ UNCHANGED <<directIds, groupVars, chatVars, isAdmin, message, messageProp, toast, account,
                 session, groupMessages, selectedGroup, viewVars>>

\* AdminPanel.handleDisableUser -> AdminContext.disableUser:
\* update(userRef, {isDisabled: true, disabledUntil: Date.now() + days})
disableUser(c, userId, durationInDays) ==
  /\ PanelShown(c)
  /\ account' = [account EXCEPT ![userId].isDisabled = TRUE,
                                ![userId].disabledUntil = now + durationInDays]
  /\ UNCHANGED <<directIds, groupVars, chatVars, isAdmin, message, messageProp, toast, now,
                 session, groupMessages, selectedGroup, viewVars>>

\* ProfileSetup.handleSubmit -> AuthProvider.updateUserProfile(data):
\* set(userRef, {...userProfile, ...data}) replaces the user's record by the
\* profile loaded at the start of the session (online, its isVerified, no
\* isDisabled and no disabledUntil) with the new name and photo.
updateUserProfile(c) ==
  /\ LayoutShown(c)
  /\ account' = [account EXCEPT ![c] = [NoAccount EXCEPT !.isOnline = TRUE]]
  /\ isVerified' = [isVerified EXCEPT ![c] = userProfile[c].isVerified]
  /\ UNCHANGED <<directIds, groupVars, userProfile, sidebarUsers, chatRequests, selectedChat,
                 startOp, messages, window, markPending, isAdmin, message, messageProp, toast,
                 now, session, groupMessages, selectedGroup, viewVars>>

NextSuspend ==
  \/ Tick
  \/ \E c \in Clients, userId \in Clients, days \in 1..MaxDays : disableUser(c, userId, days)
  \/ \E c \in Clients : onAuthStateChanged(c)
  \/ \E c \in Clients : updateUserProfile(c)

SpecSuspend == InitMaintSpec /\ [][NextSuspend]_vars

\* C19: a suspension until T ends only when T has come, and it is checked at
\* the start of a session: while the user is disabled and T is ahead, a session
\* start ends signed out and does not mark the user online; otherwise it leaves
\* isDisabled and disabledUntil cleared and the session proceeds.
C19_SuspensionUntilExpiry ==
  [][\A u \in Clients :
       /\ (StillDisabled(account[u], now) /\ ~StillDisabled(account'[u], now'))
            => now' >= account[u].disabledUntil
       /\ onAuthStateChanged(u)
            => IF StillDisabled(account[u], now)
                 THEN /\ session'[u] = "signedOut"
                      /\ account'[u].isOnline = account[u].isOnline
                 ELSE /\ session'[u] = "active"
                      /\ ~account'[u].isDisabled
                      /\ account'[u].disabledUntil = Null]_vars

\* GroupList's onSelectChat(group.id) -> ChatLayout.handleChatSelect: the list
\* shows an admin every group and a user the groups it is a member of.
handleChatSelect(c, g) ==
  /\ LayoutShown(c)
  /\ groupProp[c][g] # {}
  /\ isAdmin[c] \/ c \in groupProp[c][g]
  /\ selectedGroup[c] # g
  /\ selectedGroup' = [selectedGroup EXCEPT ![c] = g]
  /\ selectedChat' = [selectedChat EXCEPT ![c] = NoId]
  /\ UNCHANGED <<directIds, groupVars, isVerified, userProfile, sidebarUsers, chatRequests,
                 startOp, messages, window, markPending, isAdmin, message, messageProp, toast,
                 now, account, session, groupMessages, viewVars>>

\* GroupMemberManager.handleDisableGroup -> AdminContext.disableGroup:
\* update(groupRef, {isDisabled: true, disabledUntil: Date.now() + days, disabledBy})
disableGroup(c, g, durationInDays) ==
  /\ PanelShown(c)
  /\ groupProp[c][g] # {}
  /\ groups[g].exists
  /\ groups' = [groups EXCEPT ![g].isDisabled = TRUE,
                              ![g].disabledUntil = now + durationInDays]
  /\ UNCHANGED <<chatVars, extraVars, directIds, admins, storedSettings, adminSettings,
                 groupProp, addOp, lastResult, viewVars>>

\* ChatWindow.handleSendMessage in a group conversation: push(groups/{id}/messages, ...)
handleSendMessageGroup(c) ==
  /\ LayoutShown(c)
  /\ selectedGroup[c] # NoGroupId
  /\ Len(groupMessages[selectedGroup[c]]) < MaxMsgs
  /\ groupMessages' = [groupMessages EXCEPT ![selectedGroup[c]] =
                         Append(@, [senderId |-> c, status |-> "sent"])]
  /\ UNCHANGED <<directIds, groupVars, chatVars, isAdmin, message, messageProp, toast, now,
                 account, session, selectedGroup, viewVars>>

NextDisableGroup ==
  \/ Tick
  \/ \E c \in Clients : \E sel \in SUBSET (Users \ {c}) : createGroup(c, sel)
  \/ \E c \in Clients : handleGroupsChange(c)
  \/ \E c \in Clients, g \in GroupIds : handleChatSelect(c, g)
  \/ \E c \in Clients, g \in GroupIds, days \in 1..MaxDays : disableGroup(c, g, days)
  \/ \E c \in Clients : handleSendMessageGroup(c)

SpecDisableGroup == InitMaintSpec /\ [][NextDisableGroup]_vars

\* C20: while a group is disabled and its disabledUntil is ahead, no message
\* is appended to the group.
C20_DisabledGroupRejects ==
  [][\A g \in GroupIds :
       (groups[g].exists /\ StillDisabled(groups[g], now))
         => groupMessages'[g] = groupMessages[g]]_vars

(***************************************************************************)
(* Presence                                                                *)
(***************************************************************************)
\* ChatLayout's activity effect: trackActivity runs when the layout mounts and
\* then every 5 minutes: update(userRef, {lastSeen: now, isOnline: true}) and
\* an update of userActivity/{uid}.  lastSeen and userActivity are read by no
\* handler modelled here.  The effect is set up before the maintenance screen
\* is decided, so it runs for every signed-in user.
trackActivity(c) ==
  /\ session[c] = "active"
  /\ account' = [account EXCEPT ![c].isOnline = TRUE]
  /\ UNCHANGED <<directIds, groupVars, chatVars, isAdmin, message, messageProp, toast, now,
                 session, groupMessages, selectedGroup, viewVars>>

\* window 'focus': update(userRef, {isOnline: true})
handleFocus(c) ==
  /\ session[c] = "active"
  /\ account' = [account EXCEPT ![c].isOnline = TRUE]
  /\ UNCHANGED <<directIds, groupVars, chatVars, isAdmin, message, messageProp, toast, now,
                 session, groupMessages, selectedGroup, viewVars>>

\* window 'blur': update(userRef, {isOnline: false, lastSeen})
handleBlur(c) ==
  /\ session[c] = "active"
  /\ account' = [account EXCEPT ![c].isOnline = FALSE]
  /\ UNCHANGED <<directIds, groupVars, chatVars, isAdmin, message, messageProp, toast, now,
                 session, groupMessages, selectedGroup, viewVars>>

\* AuthProvider.logout: set(users/{uid}/isOnline, false), then signOut; the
\* auth listener clears the profile and the layout unmounts.
logout(c) ==
  /\ session[c] = "active"
  /\ account' = [account EXCEPT ![c].isOnline = FALSE]
  /\ session' = [session EXCEPT ![c] = "signedOut"]
  /\ userProfile' = [userProfile EXCEPT ![c] = [isVerified |-> FALSE]]
  /\ sidebarUsers' = [sidebarUsers EXCEPT ![c] = [isVerified |-> FALSE]]
  /\ UNCHANGED <<directIds, groupVars, isVerified, chatRequests, selectedChat, startOp, messages,
                 window, markPending, isAdmin, message, messageProp, toast, now, groupMessages,
                 selectedGroup, viewVars>>

\* The client stops without running a handler (the process is killed or the
\* connection is lost).  The only writes of isOnline: false are made by the
\* client's own handlers (blur, beforeunload, logout, the effect's cleanup);
\* nothing is registered with the store to run on disconnect.
disconnect(c) ==
  /\ session[c] = "active"
  /\ session' = [session EXCEPT ![c] = "crashed"]
  /\ UNCHANGED <<directIds, groupVars, chatVars, isAdmin, message, messageProp, toast, now,
                 account, groupMessages, selectedGroup, viewVars>>

\* AdminPanel -> AdminContext.removeUser: update(userRef, {isDisabled: true})
removeUser(c, userId) ==
  /\ PanelShown(c)
  /\ account' = [account EXCEPT ![userId].isDisabled = TRUE]
  /\ UNCHANGED <<directIds, groupVars, chatVars, isAdmin, message, messageProp, toast, now,
                 session, groupMessages, selectedGroup, viewVars>>

NextPresence ==
  \/ \E c \in Clients : trackActivity(c)
  \/ \E c \in Clients : handleFocus(c)
  \/ \E c \in Clients : handleBlur(c)
  \/ \E c \in Clients : logout(c)
  \/ \E c \in Clients : disconnect(c)
  \/ \E c \in Clients : onAuthStateChanged(c)
  \/ \E c \in Clients, userId \in Clients : removeUser(c, userId)
  \/ \E u \in Clients : giveBlueTickToUser(u)

SpecPresence == InitMaintSpec /\ [][NextPresence]_vars

\* The interval timer of a running client fires: a heartbeat that is due is
\* eventually made.  Nothing else is scheduled by the code.
SpecPresenceFair ==
  InitMaintSpec /\ [][NextPresence]_vars /\ \A c \in Clients : WF_vars(trackActivity(c))

\* C21: a client that stopped without running its handlers while its user was
\* marked online does not leave the flag set forever: the user is eventually
\* marked offline (or is running a session again).
C21_StaleOnlineCleared ==
  \A c \in Clients :
    (session[c] = "crashed" /\ account[c].isOnline)
      ~> (~account[c].isOnline \/ session[c] # "crashed")

\* C22: a heartbeat changes activity data only: it leaves the user's isOnline
\* as it was, so a user marked offline by a blur stays offline.
C22_HeartbeatKeepsPresence ==
  [][\A c \in Clients : trackActivity(c) => account'[c].isOnline = account[c].isOnline]_vars

\* C29: a session start that marks the user online leaves isDisabled set for a
\* user disabled without a disabledUntil (removeUser).
C29_SessionStartKeepsDisabled ==
  [][\A c \in Clients :
       (onAuthStateChanged(c) /\ account[c].isDisabled /\ account[c].disabledUntil = Null
          /\ account'[c].isOnline)
         => (account'[c].isDisabled /\ account'[c].disabledUntil = account[c].disabledUntil)]_vars

(***************************************************************************)
(* Typing indicator                                                        *)
(***************************************************************************)
\* ChatWindow.handleInputChange: a keystroke that leaves text in the input
\* calls handleTyping, one that empties it calls handleStopTyping.
handleInputChange(c, hasText) ==
  /\ LayoutShown(c)
  /\ selectedChat[c] = DirectChat
  /\ IF hasText
       THEN handleTyping(c) /\ sinceKey' = [sinceKey EXCEPT ![c] = 0]
       ELSE handleStopTyping(c) /\ sinceKey' = [sinceKey EXCEPT ![c] = Idle]
  /\ UNCHANGED <<directIds, groupVars, chatVars, extraVars, sidebarGroups, listGroups,
                 pendingRequests, requests, panel>>

\* The timeout set by the isTyping effect fires 3000 ms after isTyping was
\* set: setTypingStatus(false) removes the record, setIsTyping(false).
typingTimeoutFires(c) ==
  /\ typingTimer[c] = TypingTimeout
  /\ typing' = typing \ {c}
  /\ isTyping' = [isTyping EXCEPT ![c] = FALSE]
  /\ typingTimer' = [typingTimer EXCEPT ![c] = NoTimer]
  /\ UNCHANGED <<directIds, groupVars, chatVars, extraVars, sinceKey, sidebarGroups, listGroups,
                 pendingRequests, requests, panel>>

\* A second passes; a timeout that is due fires before the next second.
TickSecond ==
  /\ \A c \in Clients : typingTimer[c] # TypingTimeout
  /\ \E c \in Clients : typingTimer[c] # NoTimer \/ sinceKey[c] # Idle
  /\ typingTimer' = [c \in Clients |-> IF typingTimer[c] = NoTimer THEN NoTimer
                                        ELSE typingTimer[c] + 1]
  /\ sinceKey' = [c \in Clients |-> IF sinceKey[c] = Idle THEN Idle ELSE sinceKey[c] + 1]
  /\ UNCHANGED <<directIds, groupVars, chatVars, extraVars, typing, isTyping, sidebarGroups,
                 listGroups, pendingRequests, requests, panel>>

NextTyping ==
  \/ \E c \in Clients : handleStartChat(c)
  \/ \E c \in Clients, hasText \in BOOLEAN : handleInputChange(c, hasText)
  \/ \E c \in Clients : typingTimeoutFires(c)
  \/ \E c \in Clients : handleSendMessage(c)
  \/ TickSecond

SpecTyping == InitSpec /\ [][NextTyping]_vars

\* C23: a running client's typing record is present while less than 3 seconds
\* have passed since its user's last keystroke, is gone once 3 seconds have
\* passed without one, and is gone after the client has sent a message.
C23_TypingRecordLifetime ==
  /\ [](\A c \in Clients : sinceKey[c] < Idle => c \in typing)
  /\ [](\A c \in Clients : (sinceKey[c] = Idle /\ typingTimer[c] # TypingTimeout) => c \notin typing)
  /\ [][\A c \in Clients : handleSendMessage(c) => c \notin typing']_vars

(***************************************************************************)
(* Concurrent feature toggles                                              *)
(***************************************************************************)
\* Two admins at their panels, each with its own copy of the settings.
NextToggle ==
  \/ \E c \in Clients, feature \in Features : toggleFeature(c, feature)
  \/ \E c \in Clients : toggleMaintenanceMode(c)
  \/ \E c \in Clients : handleSettingsChange(c)

SpecToggle == InitSpec /\ [][NextToggle]_vars

\* C24: a feature toggle flips the toggled flag in the stored settings and
\* leaves every other stored flag as it was, so two admins toggling two
\* different flags from the same observed settings both take effect.
C24_TogglesLoseNoUpdate ==
  [][\A c \in Clients, feature \in Features :
       toggleFeature(c, feature)
         => /\ storedSettings'.featureFlags[feature] = ~storedSettings.featureFlags[feature]
            /\ \A other \in Features \ {feature} :
                 storedSettings'.featureFlags[other] = storedSettings.featureFlags[other]]_vars

(***************************************************************************)
(* The stored member limit                                                 *)
(***************************************************************************)
\* C25: the stored groupMemberLimit is always an integer in 1..100.
C25_LimitInRange == storedSettings.groupMemberLimit \in 1..100

(***************************************************************************)
(* Seen acknowledgement                                                    *)
(***************************************************************************)
\* C26: every stored status is one of sent, delivered, seen; a pass of the
\* mark-as-seen loop leaves the message it handles with status seen, and it
\* handles only messages whose sender is not the viewer.
C26_SeenAfterMark ==
  /\ [](\A i \in 1..Len(messages) : messages[i].status \in {"sent", "delivered", "seen"})
  /\ [][\A c \in Clients : \A i \in 1..Len(messages) :
          markMessagesAsSeen(c, i) => (messages'[i].status = "seen" /\ messages[i].senderId # c)]_vars

(***************************************************************************)
(* Conversation lists                                                      *)
(***************************************************************************)
\* Groups are created and their rosters changed while both lists follow the
\* groups subscription; B is no admin until it makes itself one.
NextLists ==
  \/ \E c \in Clients : \E sel \in SUBSET (Users \ {c}) : createGroup(c, sel)
  \/ \E c \in Clients : handleGroupsChange(c)
  \/ \E c \in Clients : handleGroupsChangeSidebar(c)
  \/ \E c \in Clients, g \in GroupIds, u \in Users : addMemberToGroupRead(c, g, u)
  \/ \E c \in Clients : addMemberToGroupWrite(c)
  \/ \E c \in Clients, g \in GroupIds, u \in Users : removeMemberFromGroup(c, g, u)
  \/ \E c \in Clients : makeCurrentUserAdmin(c)
  \/ \E c \in Clients : checkAdminStatus(c)

SpecLists == InitMaintSpec /\ [][NextLists]_vars

\* C27: for a user who is no admin, the list each groups handler computes from
\* the stored groups holds a group exactly if the user is in its roster, and
\* so does the list a handler has set when it last ran on the stored rosters.
C27_ListedIffMember ==
  \A c \in Clients \ admins : \A g \in GroupIds :
    groups[g].exists
      => /\ (g \in SidebarUserGroups(c)) <=> (c \in Roster(g))
         /\ (g \in ListUserGroups(c)) <=> (c \in Roster(g))

(***************************************************************************)
(* Pending chat requests                                                   *)
(***************************************************************************)
\* snapshot.val() of chatRequests/{uid}: the chat ids below which anything is
\* stored (a pushed record or a status)
RequestsData(uid) ==
  {chatId \in {DirectChat} :
     chatRequests[uid][chatId].pushed # <<>> \/ chatRequests[uid][chatId].status # "none"}

\* ChatSidebar: Object.keys(data).filter(chatId => data[chatId].status === 'pending').
\* data[chatId] holds the pushed records below their keys and, once resolved, a
\* status; the status of a pushed record is one level further down.
PendingChatIds(uid) ==
  {chatId \in RequestsData(uid) : chatRequests[uid][chatId].status = "pending"}

\* ChatRequestHandler: entries mapped to {id: chatId, ...requestData}, filtered
\* by req.status === 'pending'; from is a field of the pushed records and not
\* of requestData.
PendingRequests(uid) ==
  {[id |-> chatId, from |-> NoId] :
     chatId \in {x \in RequestsData(uid) : chatRequests[uid][x].status = "pending"}}

\* ChatSidebar's requests subscription
handleRequestsChangeSidebar(c) ==
  /\ LayoutShown(c)
  /\ pendingRequests' = [pendingRequests EXCEPT ![c] = PendingChatIds(c)]
  /\ UNCHANGED <<chatVars, extraVars, directIds, groupVars, typing, isTyping, typingTimer, sinceKey,
                 sidebarGroups, listGroups, requests, panel>>

\* ChatRequestHandler's requests subscription
handleRequestsChange(c) ==
  /\ LayoutShown(c)
  /\ requests' = [requests EXCEPT ![c] = PendingRequests(c)]
  /\ UNCHANGED <<chatVars, extraVars, directIds, groupVars, typing, isTyping, typingTimer, sinceKey,
                 sidebarGroups, listGroups, pendingRequests, panel>>

NextRequests ==
  \/ \E u \in Clients : giveBlueTickToUser(u)
  \/ \E c \in Clients : handleUsersChange(c)
  \/ \E c \in Clients : handleStartChat(c)
  \/ \E c \in Clients : handleStartChatPush(c)
  \/ \E c \in Clients : handleRequestsChangeSidebar(c)
  \/ \E c \in Clients : handleRequestsChange(c)
  \/ \E c \in Clients : \E request \in StoredRequests(c) : handleAcceptRequest(c, request)
  \/ \E c \in Clients : \E request \in StoredRequests(c) : handleRejectRequest(c, request)

SpecRequests == InitSpec /\ [][NextRequests]_vars

\* C28: while a request written by a send is neither accepted nor rejected,
\* the pending lists the recipient's two request handlers compute from the
\* stored requests hold it: the sidebar its chat id, the request handler the
\* request with its from field.
C28_PendingRequestListed ==
  \A c \in Clients : \A k \in 1..Len(chatRequests[c][DirectChat].pushed) :
    (chatRequests[c][DirectChat].pushed[k].status = "pending"
       /\ chatRequests[c][DirectChat].status \notin {"accepted", "rejected"})
      => /\ DirectChat \in PendingChatIds(c)
         /\ \E req \in PendingRequests(c) :
              req.id = DirectChat /\ req.from = chatRequests[c][DirectChat].pushed[k].from

(***************************************************************************)
(* The admin panel's users/activity subscription                           *)
(***************************************************************************)
\* The identity of the array a handler allocates: usersList.filter(...) is a
\* new array each time, different (Object.is) from the one in the state and
\* from the one the effect ran with.  Two identities besides that of the
\* initial [] are enough to tell a new array from the previous one.
Fresh(id) == IF id = 1 THEN 2 ELSE 1

\* The admin opens /admin: AdminPanel mounts with users = [] and its effect
\* is due.
openAdminPanel(c) ==
  /\ PanelShown(c)
  /\ panel[c].phase = "unmounted"
  /\ panel' = [panel EXCEPT ![c] = [NoPanel EXCEPT !.phase = "effect"]]
  /\ UNCHANGED <<directIds, groupVars, chatVars, extraVars, typing, isTyping, typingTimer,
                 sinceKey, sidebarGroups, listGroups, pendingRequests, requests>>

\* The effect with dependencies [isAdmin, user, users] runs: the cleanup of
\* its previous run unsubscribes (off), then onValue subscribes to users and
\* to userActivity.
subscribeEffect(c) ==
  /\ PanelShown(c)
  /\ panel[c].phase = "effect"
  /\ panel' = [panel EXCEPT ![c].phase = "subscribed", ![c].deps = panel[c].users,
                            ![c].first = TRUE, ![c].activity = TRUE]
  /\ UNCHANGED <<directIds, groupVars, chatVars, extraVars, typing, isTyping, typingTimer,
                 sinceKey, sidebarGroups, listGroups, pendingRequests, requests>>

\* AdminPanel.handleUsersChange: the subscription delivers the users snapshot,
\* when it is set up and whenever the stored users change;
\* setUsers(usersList.filter(u => u.uid !== user?.uid)) puts a new array into
\* the state, and the render that follows finds the dependency users changed.
handleUsersChangePanel(c) ==
  /\ panel[c].phase = "subscribed"
  /\ panel[c].first \/ panel[c].list # {account[Other(c)]}
  /\ LET newUsers == Fresh(panel[c].users)
     IN  panel' = [panel EXCEPT ![c].users = newUsers,
                                ![c].list = {account[Other(c)]},
                                ![c].first = FALSE,
                                ![c].phase = IF newUsers # panel[c].deps THEN "effect"
                                             ELSE "subscribed"]
  /\ UNCHANGED <<directIds, groupVars, chatVars, extraVars, typing, isTyping, typingTimer,
                 sinceKey, sidebarGroups, listGroups, pendingRequests, requests>>

\* AdminPanel.handleActivityChange: setUserActivities(activities);
\* userActivities is no dependency of the effect.
handleActivityChange(c) ==
  /\ panel[c].phase = "subscribed"
  /\ panel[c].activity
  /\ panel' = [panel EXCEPT ![c].activity = FALSE]
  /\ UNCHANGED <<directIds, groupVars, chatVars, extraVars, typing, isTyping, typingTimer,
                 sinceKey, sidebarGroups, listGroups, pendingRequests, requests>>

\* The admin closes the panel: the effect's cleanup unsubscribes.
closeAdminPanel(c) ==
  /\ panel[c].phase # "unmounted"
  /\ panel' = [panel EXCEPT ![c] = NoPanel]
  /\ UNCHANGED <<directIds, groupVars, chatVars, extraVars, typing, isTyping, typingTimer,
                 sinceKey, sidebarGroups, listGroups, pendingRequests, requests>>

NextPanel ==
  \/ \E c \in Clients : openAdminPanel(c)
  \/ \E c \in Clients : subscribeEffect(c)
  \/ \E c \in Clients : handleUsersChangePanel(c)
  \/ \E c \in Clients : handleActivityChange(c)
  \/ \E c \in Clients : closeAdminPanel(c)
  \/ \E c \in Clients : handleBlur(c)
  \/ \E c \in Clients : handleFocus(c)
  \/ \E c \in Clients, userId \in Clients : removeUser(c, userId)

\* React runs an effect that is due and the database client delivers a
\* snapshot that is due; nothing obliges a user to act.
SpecPanel ==
  /\ InitSpec
  /\ [][NextPanel]_vars
  /\ \A c \in Clients : WF_vars(subscribeEffect(c)) /\ WF_vars(handleUsersChangePanel(c))

\* C30: when the stored users stop changing and the panel stays mounted, the
\* panel stops too: from some point on its effect is never due again and no
\* first snapshot of a new subscription is pending.
C30_PanelQuiesces ==
  \A c \in Clients :
    (<>[][account' = account]_vars /\ <>[](panel[c].phase # "unmounted"))
      => <>[](panel[c].phase # "effect" /\ ~panel[c].first)

====
